---- MODULE Spec2Model ----
(***************************************************************************)
(* A model of edx/analytics/tasks/common/spark.py: the packaging of local  *)
(* packages into packages.zip (create_packages_archive and its helpers)    *)
(* and the life cycle of BasicSparkJobTask (app_options, main and the      *)
(* hooks main drives).  Path names and module names are strings, and the   *)
(* string operations of the code (endswith, startswith, replace, split,    *)
(* rpartition, basename, join) are computed character by character.        *)
(***************************************************************************)
EXTENDS Integers, Sequences, FiniteSets, TLC

(***************************************************************************)
(* Bounds of the model.                                                    *)
(***************************************************************************)
MaxPackages == 2        \* longest packages list given to create_packages_archive
MaxInvocations == 2     \* calls of main on one task instance

(***************************************************************************)
(* Python string operations.                                               *)
(***************************************************************************)
None == "<None>"

startswith(s, pre) == Len(s) >= Len(pre) /\ SubSeq(s, 1, Len(pre)) = pre

endswith(s, suf) ==
    Len(s) >= Len(suf) /\ SubSeq(s, Len(s) - Len(suf) + 1, Len(s)) = suf

\* s.find(sub): the 0-based index of the first occurrence, or -1
find(s, sub) ==
    LET hits == {i \in 1..(Len(s) - Len(sub) + 1) : SubSeq(s, i, i + Len(sub) - 1) = sub}
    IN  IF hits = {} THEN -1
        ELSE (CHOOSE i \in hits : \A j \in hits : i <= j) - 1

\* s.rfind(sub), 0-based, or -1
rfind(s, sub) ==
    LET hits == {i \in 1..(Len(s) - Len(sub) + 1) : SubSeq(s, i, i + Len(sub) - 1) = sub}
    IN  IF hits = {} THEN -1
        ELSE (CHOOSE i \in hits : \A j \in hits : i >= j) - 1

contains(s, sub) == find(s, sub) # -1

\* s.replace(old, new) for a non-empty old: every non-overlapping occurrence,
\* left to right
RECURSIVE replace(_, _, _)
replace(s, old, new) ==
    LET i == find(s, old)
    IN  IF i = -1 THEN s
        ELSE SubSeq(s, 1, i) \o new
             \o replace(SubSeq(s, i + Len(old) + 1, Len(s)), old, new)

\* s.split(sep): the list of the pieces
RECURSIVE split(_, _)
split(s, sep) ==
    LET i == find(s, sep)
    IN  IF i = -1 THEN <<s>>
        ELSE <<SubSeq(s, 1, i)>> \o split(SubSeq(s, i + Len(sep) + 1, Len(s)), sep)

\* s.rpartition(sep)[0]
rpartition_head(s, sep) ==
    LET i == rfind(s, sep) IN IF i = -1 THEN "" ELSE SubSeq(s, 1, i)

\* sep.join(parts)
RECURSIVE join(_, _)
join(sep, parts) ==
    IF Len(parts) = 0 THEN ""
    ELSE IF Len(parts) = 1 THEN parts[1]
    ELSE parts[1] \o sep \o join(sep, Tail(parts))

\* os.path.basename, os.path.dirname, os.path.isabs, os.path.join
basename(p) == SubSeq(p, rfind(p, "/") + 2, Len(p))

dirname(p) ==
    LET i == rfind(p, "/")
    IN  IF i = -1 THEN "" ELSE IF i = 0 THEN "/" ELSE SubSeq(p, 1, i)

isabs(p) == startswith(p, "/")

path_join(a, b) ==
    IF isabs(b) THEN b
    ELSE IF a = "" \/ endswith(a, "/") THEN a \o b
    ELSE a \o "/" \o b

(***************************************************************************)
(* The environment: the file system of the driver and the modules and      *)
(* distributions installed in it.  A file system is the set of its regular *)
(* files, the set of its symbolic links and the set of its directories     *)
(* (the ancestors of both), with the listing of each directory.            *)
(***************************************************************************)
Range(q) == {q[i] : i \in DOMAIN q}

\* dict.get(key), with None for a missing key
Get(d, k) == IF k \in DOMAIN d THEN d[k] ELSE None

EmptyDict == [k \in {} |-> None]

Ancestors(p) ==
    {SubSeq(p, 1, i - 1) : i \in {j \in 2..Len(p) : SubSeq(p, j, j) = "/"}}

\* A file system: its regular files, its symbolic links, its directories and
\* the names each directory holds
FileSystem(files, links) ==
    LET dirs == UNION {Ancestors(p) : p \in files \cup links}
    IN  [files |-> files, links |-> links, dirs |-> dirs,
         names |-> [d \in dirs |->
                      {basename(q) : q \in {r \in files \cup links \cup dirs :
                                               dirname(r) = d}}]]

\* os.readlink: what each symbolic link of the modelled trees points to
readlink(l) == IF l = "/s/a/b/l.py" THEN "y.py" ELSE "x.py"

islink(fs, p) == p \in fs.links

isdir(fs, p) == p \in fs.dirs

\* get_package_metadata_paths and add use os.path.realpath: the path with its
\* symbolic links resolved (the modelled paths are already normalised)
RECURSIVE realpath(_, _)
realpath(fs, p) ==
    IF islink(fs, p) THEN realpath(fs, path_join(dirname(p), readlink(p))) ELSE p

isfile(fs, p) == realpath(fs, p) \in fs.files

RECURSIVE dereference(_, _)
dereference(fs, f) ==
    IF islink(fs, f)
    THEN dereference(fs, path_join(dirname(f), readlink(f)))
    ELSE f

\* os.listdir, split as os.walk splits it into directories and the rest
listdir(fs, d) == IF d \in fs.dirs THEN fs.names[d] ELSE {}

subdirs(fs, d) == {n \in listdir(fs, d) : isdir(fs, path_join(d, n))}

nondirs(fs, d) == listdir(fs, d) \ subdirs(fs, d)

\* sys.modules: what __import__ returns for each module name.  has_path is
\* whether the module has a __path__ attribute (a package).  Package a.b has
\* a second directory, /t/b, on its __path__.
Module(name, has_path, path, file) ==
    [__name__ |-> name, has_path |-> has_path, __path__ |-> path, __file__ |-> file]

ModuleNames == {"a", "a.b", "a.c", "m", "e"}

import(name) ==
    CASE name = "a"   -> Module("a", TRUE, <<"/s/a">>, "/s/a/__init__.pyc")
      [] name = "a.b" -> Module("a.b", TRUE, <<"/s/a/b", "/t/b">>, "/s/a/b/__init__.pyc")
      [] name = "a.c" -> Module("a.c", FALSE, <<>>, "/s/a/c.pyc")
      [] name = "m"   -> Module("m", FALSE, <<>>, "/s/m.pyc")
      [] name = "e"   -> Module("e", TRUE, <<"/s/e.egg">>, "/s/e.egg/__init__.pyc")

\* getattr(package, "__path__", default)
getattr_path(package, default) ==
    IF package.has_path THEN package.__path__ ELSE default

\* distlib's distributions: the metadata path and the installed files
Distribution(path, installed) == [path |-> path, installed |-> installed]

DistA ==
    Distribution("/s/a-1.dist-info",
                 <<"a/__init__.py", "a/x.py", "a/b/__init__.py", "a-1.dist-info/METADATA">>)

DistB == Distribution("/s/b-2.dist-info", <<"/s/a/b/y.py">>)

DistM == Distribution("/s/m.egg-info", <<"m.py">>)

\* get_package_metadata_paths: the scan of the installed distributions, a
\* later distribution overwriting an earlier one's entry for the same file
installed_paths(fs, distribution) ==
    {realpath(fs, IF isabs(p) THEN p
                  ELSE path_join(dirname(distribution.path), p)) :
        p \in Range(distribution.installed)}

scan_distributions(fs, dists) ==
    [f \in UNION {installed_paths(fs, dists[i]) : i \in DOMAIN dists} |->
        LET hits == {i \in DOMAIN dists : f \in installed_paths(fs, dists[i])}
        IN  dists[CHOOSE i \in hits : \A j \in hits : i >= j].path]

get_package_metadata_paths(cache, fs, dists) ==
    IF Cardinality(DOMAIN cache) > 0 THEN cache ELSE scan_distributions(fs, dists)

(***************************************************************************)
(* create_packages_archive.  The state of one call is a record: the        *)
(* entries written to packages.zip (each tagged with the position in       *)
(* packages being processed and with whether the metadata pass wrote it),  *)
(* the metadata_to_add dict, the exception that ended the call (or None),  *)
(* the position at which it was raised, and what was returned.             *)
(***************************************************************************)
EggError == "TypeError(raise 'Not going to archive egg files!!!')"
WriteError == "OSError(ZipFile.write)"
ZipOpenError == "IOError(ZipFile)"

Put(d, k, v) == [x \in DOMAIN d \cup {k} |-> IF x = k THEN v ELSE d[x]]

Entry(src, dst, idx, in_metadata) ==
    [src |-> src, dst |-> dst, idx |-> idx, in_metadata |-> in_metadata]

\* line 82: the files add_files_for_package passes to add
archivable(f) == ~endswith(f, ".pyc") /\ ~startswith(f, ".")

\* a walk that does not descend
walk_subdirs_none(fs, root) == {}

\* lines 79-80 and os.walk's descent (symbolic links to directories are not
\* followed): the directories of root that the walk enters
walk_subdirs(fs, root) ==
    {d \in subdirs(fs, root) \ {".svn"} : ~islink(fs, path_join(root, d))}

\* os.walk(top): the directories visited (none when top is no directory)
RECURSIVE walk_roots(_, _)
walk_roots(fs, top) ==
    IF ~isdir(fs, top) THEN {}
    ELSE {top} \cup UNION {walk_roots(fs, path_join(top, d)) : d \in walk_subdirs(fs, top)}

\* lines 68-75
add(fs, mapping, st, src, dst, package_name, idx, in_metadata) ==
    LET metadata_path == Get(mapping, realpath(fs, src))
        st1 == IF metadata_path # None
               THEN [st EXCEPT !.metadata_to_add = Put(@, package_name, metadata_path)]
               ELSE st
    IN  IF isfile(fs, src)
        THEN [st1 EXCEPT !.entries = @ \cup {Entry(src, dst, idx, in_metadata)}]
        ELSE [st1 EXCEPT !.exc = WriteError, !.errIdx = idx]

\* The value add leaves in metadata_to_add[package_name] after a walk of top
\* depends on the order in which os.walk lists the entries: it is the
\* metadata path of the file added last among those the mapping knows.  The
\* files of a directory come before those of its subdirectories.
RECURSIVE last_metadata(_, _, _)
last_metadata(fs, mapping, root) ==
    IF ~isdir(fs, root) THEN {}
    ELSE LET below == UNION {last_metadata(fs, mapping, path_join(root, d)) :
                                d \in walk_subdirs(fs, root)}
             own == {Get(mapping, realpath(fs, dereference(fs, root \o "/" \o f))) :
                        f \in {g \in nondirs(fs, root) : archivable(g)}} \ {None}
         IN  IF below # {} THEN below ELSE own

\* lines 78-82: the (root, f) pairs of the walk that reach add
walk_files(fs, top) ==
    UNION {{<<root, f>> : f \in {g \in nondirs(fs, root) : archivable(g)}} :
              root \in walk_roots(fs, top)}

\* lines 77-85: the set of states the walk can end in
add_files_for_package(fs, mapping, st, sub_package_path, root_package_path, root_package_name, package_name, idx, in_metadata) ==
    LET adds == {Entry(dereference(fs, rf[1] \o "/" \o rf[2]),
                       replace(rf[1], root_package_path, root_package_name)
                          \o "/" \o rf[2],
                       idx, in_metadata) : rf \in walk_files(fs, sub_package_path)}
        bad == {e \in adds : ~isfile(fs, e.src)}
        lasts == last_metadata(fs, mapping, sub_package_path)
        dicts == IF lasts = {} THEN {st.metadata_to_add}
                 ELSE {Put(st.metadata_to_add, package_name, m) : m \in lasts}
    IN  {[st EXCEPT !.entries = @ \cup (adds \ bad),
                    !.metadata_to_add = d,
                    !.exc = IF bad # {} THEN WriteError ELSE @,
                    !.errIdx = IF bad # {} THEN idx ELSE @] : d \in dicts}

\* lines 109-117: the __init__ files of the parent packages, parents[1..k]
\* being those already added
RECURSIVE add_parent_inits(_, _, _, _, _, _, _)
add_parent_inits(fs, mapping, st, parents, k, package_name, idx) ==
    IF k > Len(parents) \/ st.exc # None THEN st
    ELSE LET root == SubSeq(parents, 1, k)
             module_name == join(".", root)
             directory == join("/", root)
         IN  add_parent_inits(fs, mapping,
                 add(fs, mapping, st,
                     dereference(fs, import(module_name).__path__[1] \o "/__init__.py"),
                     directory \o "/__init__.py", package_name, idx, FALSE),
                 parents, k + 1, package_name, idx)

\* lines 89-90: a module without __path__ and with a dotted name is replaced
\* by its parent package
resolve_package(package) ==
    IF Len(getattr_path(package, <<>>)) = 0 /\ contains(package.__name__, ".")
    THEN import(rpartition_head(package.__name__, "."))
    ELSE package

\* the egg test made on directories instead of regular files
is_egg_file_isdir(fs, p) == endswith(p, ".egg") /\ isdir(fs, p)

\* line 101
is_egg_file(fs, p) == endswith(p, ".egg") /\ isfile(fs, p)

\* lines 92-128: the files of one package; the set of states it can end in
archive_package(fs, mapping, st, package, idx) ==
    LET n == replace(package.__name__, ".", "/")
    IN  IF Len(getattr_path(package, <<>>)) > 0
        THEN LET p == package.__path__[1]
             IN  IF is_egg_file(fs, p)
                 THEN {[st EXCEPT !.exc = EggError, !.errIdx = idx]}
                 ELSE LET names == split(package.__name__, ".")
                          st1 == add_parent_inits(fs, mapping, st,
                                     SubSeq(names, 1, Len(names) - 1), 1,
                                     package.__name__, idx)
                      IN  IF st1.exc # None THEN {st1}
                          ELSE add_files_for_package(fs, mapping, st1, p, p, n,
                                                     package.__name__, idx, FALSE)
        ELSE LET f0 == package.__file__
                 f == IF endswith(f0, "pyc")
                      THEN SubSeq(f0, 1, Len(f0) - 3) \o "py" ELSE f0
             IN  IF find(n, ".") = -1
                 THEN {add(fs, mapping, st, dereference(fs, f), basename(f),
                           package.__name__, idx, FALSE)}
                 ELSE {add(fs, mapping, st, dereference(fs, f), n \o ".py",
                           package.__name__, idx, FALSE)}

\* a loop that never ships the metadata
archive_metadata_never(fs, mapping, st, package, idx) == {st}

\* lines 130-133: the metadata of the package, into the same zip file
archive_metadata(fs, mapping, st, package, idx) ==
    LET metadata_path == Get(st.metadata_to_add, package.__name__)
    IN  IF metadata_path # None
        THEN add_files_for_package(fs, mapping, st, metadata_path, metadata_path,
                                   basename(metadata_path), package.__name__, idx, TRUE)
        ELSE {st}

\* lines 87-133: one turn of the loop over packages
process_package(fs, mapping, st, packages, idx) ==
    LET package == resolve_package(packages[idx])
    IN  UNION {IF s.exc # None THEN {s}
               ELSE {IF t.exc # None THEN t ELSE [t EXCEPT !.processed = idx] :
                        t \in archive_metadata(fs, mapping, s, package, idx)} :
                  s \in archive_package(fs, mapping, st, package, idx)}

\* lines 66 and 135: the list returned holds the path of packages.zip
archive_return(st) ==
    [st EXCEPT !.returned = TRUE, !.archives_list = <<st.package_zip_path>>]

RECURSIVE archive_loop(_, _, _, _, _)
archive_loop(fs, mapping, st, packages, idx) ==
    IF idx > Len(packages) THEN {archive_return(st)}
    ELSE UNION {IF s.exc # None THEN {s}
                ELSE archive_loop(fs, mapping, s, packages, idx + 1) :
                   s \in process_package(fs, mapping, st, packages, idx)}

\* lines 55-135.  dir_exists: whether archive_dir_path is an existing
\* directory (zipfile.ZipFile cannot create packages.zip otherwise).
ArchiveStart(packages, archive_dir_path) ==
    [packages |-> [i \in DOMAIN packages |-> packages[i].__name__],
     processed |-> 0,
     package_zip_path |-> path_join(archive_dir_path, "packages.zip"),
     entries |-> {}, metadata_to_add |-> EmptyDict, exc |-> None, errIdx |-> 0,
     returned |-> FALSE, archives_list |-> <<>>]

create_packages_archive(fs, mapping, packages, archive_dir_path, dir_exists) ==
    LET st == ArchiveStart(packages, archive_dir_path)
    IN  IF ~dir_exists THEN {[st EXCEPT !.exc = ZipOpenError]}
        ELSE archive_loop(fs, mapping, st, packages, 1)

(***************************************************************************)
(* BasicSparkJobTask: the pure parts.  A value that Python code tests with *)
(* isinstance is a record tagged with its kind; a dict is a function from  *)
(* its keys.                                                               *)
(***************************************************************************)
Dict(d) == [kind |-> "dict", d |-> d]
NotADict == [kind |-> "other", d |-> EmptyDict]
Malformed == [kind |-> "malformed", d |-> EmptyDict]

\* an app_options that starts from an empty dict whatever the task gave
app_options_fresh(task_config, edx_egg_files) ==
    <<IF edx_egg_files # None
      THEN Put(EmptyDict, "cluster_dependencies", edx_egg_files)
      ELSE EmptyDict>>

\* lines 217-231.  task_config is what get_luigi_configuration returned,
\* edx_egg_files what configuration.get('spark', 'edx_egg_files', None) did.
app_options(task_config, edx_egg_files) ==
    LET options == IF task_config.kind = "dict" THEN task_config.d ELSE EmptyDict
    IN  <<IF edx_egg_files # None
          THEN Put(options, "cluster_dependencies", edx_egg_files)
          ELSE options>>

\* lines 199-207.  An argument stands for the string handed to main; its kind
\* is what ast.literal_eval makes of it.
IndexError == "IndexError(args[0])"
LiteralError == "ValueError(ast.literal_eval)"
AttributeError == "AttributeError(config_dict.get)"

get_config_from_args(key, a, default_value) ==
    IF Len(a) = 0 THEN [exc |-> IndexError, value |-> None]
    ELSE IF a[1].kind = "malformed" THEN [exc |-> LiteralError, value |-> None]
    ELSE IF a[1].kind # "dict" THEN [exc |-> AttributeError, value |-> None]
    ELSE [exc |-> None,
          value |-> IF key \in DOMAIN a[1].d THEN a[1].d[key] ELSE default_value]

\* json.loads on the texts of the model: a list of strings, another JSON
\* value, or no JSON at all (ValueError)
JsonError == "ValueError(json.loads)"

unquote(t) == SubSeq(t, 2, Len(t) - 1)

is_quoted(t) == Len(t) >= 2 /\ startswith(t, "\"") /\ endswith(t, "\"")

json_loads(text) ==
    IF text = "[]" THEN [kind |-> "list", items |-> <<>>]
    ELSE IF text \in {"{}", "null"} \/ is_quoted(text)
    THEN [kind |-> "other", items |-> <<>>]
    ELSE IF startswith(text, "[") /\ endswith(text, "]")
    THEN LET parts == split(unquote(text), ", ")
         IN  IF \A i \in DOMAIN parts : is_quoted(parts[i])
             THEN [kind |-> "list", items |-> [i \in DOMAIN parts |-> unquote(parts[i])]]
             ELSE [kind |-> "error", items |-> <<>>]
    ELSE [kind |-> "error", items |-> <<>>]

\* lines 268-269: the modules whose packages are sent to the cluster (a
\* package directory, a package that may be an egg file, a plain module)
ClusterPackages == <<import("m"), import("e"), import("a")>>

\* the archives put before the cluster dependencies
dependencies_list_archives_first(cluster_dependencies, archives_list) ==
    archives_list
       \o (IF cluster_dependencies.kind = "list" THEN cluster_dependencies.items ELSE <<>>)

\* lines 260, 265-266 and 270: the cluster dependencies when they are a list,
\* then the archives
dependencies_list(cluster_dependencies, archives_list) ==
    (IF cluster_dependencies.kind = "list" THEN cluster_dependencies.items ELSE <<>>)
       \o archives_list

NoArchive == ArchiveStart(<<>>, None)

\* lines 260-270: the list of files to load, or the exception that ends the
\* call before any file is loaded.  One record for each state
\* create_packages_archive can end in.
dependencies(fs, mapping, a, tmp_dir, dir_exists) ==
    LET got == get_config_from_args("cluster_dependencies", a, None)
        parsed == IF got.value # None THEN json_loads(got.value)
                  ELSE [kind |-> "other", items |-> <<>>]
    IN  IF got.exc # None
        THEN {[exc |-> got.exc, list |-> <<>>, archive |-> NoArchive]}
        ELSE IF parsed.kind = "error"
        THEN {[exc |-> JsonError, list |-> <<>>, archive |-> NoArchive]}
        ELSE {[exc |-> r.exc,
               list |-> IF r.exc = None
                        THEN dependencies_list(parsed, r.archives_list) ELSE <<>>,
               archive |-> r] :
                 r \in create_packages_archive(fs, mapping, ClusterPackages,
                                               tmp_dir, dir_exists)}

\* a main that goes on to the next step whatever the last one raised
after_step_no_abort(step, raised) ==
    CASE step = "init_spark" -> "_load_internal_dependency_on_cluster"
      [] step = "_load_internal_dependency_on_cluster" -> "spark_job"
      [] step = "spark_job" -> "_clean"

\* lines 280-286: where main goes after a step of the try block
after_step(step, raised) ==
    IF raised # None THEN "_clean"
    ELSE CASE step = "init_spark" -> "_load_internal_dependency_on_cluster"
           [] step = "_load_internal_dependency_on_cluster" -> "spark_job"
           [] step = "spark_job" -> "_clean"

\* a _clean that leaves the directory in place
clean_target_none(tmp_dir) == None

\* lines 275-278: the directory _clean removes (None when it removes none)
RmtreeError == "OSError(shutil.rmtree)"

clean_target(tmp_dir) == IF tmp_dir # None /\ tmp_dir # "" THEN tmp_dir ELSE None

\* lines 285-286: what main ends with, given the exception pending from the
\* try block and the one _clean raised
main_outcome(pending_exc, clean_exc) ==
    IF clean_exc # None THEN clean_exc
    ELSE IF pending_exc # None THEN pending_exc
    ELSE "returned"

(***************************************************************************)
(* The state.  fs and dists are the environment; the module global         *)
(* _file_path_to_package_meta_path and the fields of one task instance     *)
(* (_spark, _spark_context, _tmp_dir, log) persist from call to call; the  *)
(* rest describes the call in progress or the last one made.               *)
(***************************************************************************)
VARIABLES
    fs,                 \* the driver's file system under the site directory
    dists,              \* the installed distributions, in scan order
    tmpdirs,            \* the temporary directories that exist
    _file_path_to_package_meta_path,
    _spark, _spark_context, _tmp_dir, log,
    pc,                 \* "idle", or the step the call in progress is at
    op,                 \* the operation called last ("none" before any)
    args,               \* main's *args
    steps,              \* main: the steps started, each with what it raised
    pending,            \* main: the exception raised in the try block
    outcome,            \* "running", "returned" or the exception raised
    created,            \* main: the directory init_spark made in this call
    addPyFileCalls,     \* main: the arguments of the calls of addPyFile
    archive,            \* the state of the call of create_packages_archive
    task_config,        \* app_options: what get_luigi_configuration gave
    edx_egg_files,      \* app_options: the [spark] edx_egg_files setting
    options,            \* app_options: the list returned
    invocations         \* the number of calls of main so far

vars == <<fs, dists, tmpdirs, _file_path_to_package_meta_path, _spark,
          _spark_context, _tmp_dir, log, pc, op, args, steps, pending, outcome,
          created, addPyFileCalls, archive, task_config, edx_egg_files, options,
          invocations>>

env == <<fs, dists>>
task == <<_spark, _spark_context, _tmp_dir, log>>

BaseFiles ==
    {"/s/a/x.py", "/s/a/x.pyc", "/s/a/.h", "/s/a/b/__init__.py", "/s/a/b/y.py",
     "/s/a/.git/config", "/t/b/v.py",
     "/s/a-1.dist-info/METADATA", "/s/a-1.dist-info/t.pyc",
     "/s/b-2.dist-info/RECORD", "/s/m.egg-info"}

OptionalFiles ==
    {"/s/a/__init__.py", "/s/a/.svn/entries", "/s/a/s/a/w.py", "/s/m.py"}

\* /s/e.egg is a zipped egg (a regular file) or an unzipped one (a directory)
EggVariants == {{"/s/e.egg"}, {"/s/e.egg/z.py"}}

FileSystems ==
    {FileSystem(BaseFiles \cup o \cup e, {"/s/a/b/l.py"}) :
        o \in SUBSET OptionalFiles, e \in EggVariants}

DistributionSets == {<<>>, <<DistA, DistB, DistM>>}

TmpNames == {"/tmp/tmp1", "/tmp/tmp2"}

EnvInit ==
    /\ fs \in FileSystems
    /\ dists \in DistributionSets
    /\ _file_path_to_package_meta_path = EmptyDict

\* lines 168-171: the class attributes
TaskInit ==
    /\ _spark = None
    /\ _spark_context = None
    /\ _tmp_dir = None
    /\ log = None

CallInit ==
    /\ pc = "idle"
    /\ op = "none"
    /\ args = <<>>
    /\ steps = <<>>
    /\ pending = None
    /\ outcome = "returned"
    /\ created = None
    /\ addPyFileCalls = <<>>
    /\ archive = NoArchive
    /\ task_config = NotADict
    /\ edx_egg_files = None
    /\ options = <<>>
    /\ invocations = 0

\* what every call starts from
NewCall(name) ==
    /\ pc = "idle"
    /\ op' = name
    /\ steps' = <<>>
    /\ pending' = None
    /\ created' = None
    /\ addPyFileCalls' = <<>>

\* The task is run on a driver whose site directory holds the whole tree of
\* package a
Init ==
    /\ EnvInit
    /\ {"/s/a/__init__.py", "/s/a/.svn/entries", "/s/a/s/a/w.py"} \subseteq fs.files
    /\ TaskInit
    /\ CallInit
    /\ tmpdirs = {}

(***************************************************************************)
(* app_options, called by the framework before it submits the job.         *)
(***************************************************************************)
TaskConfigs ==
    {NotADict,
     Dict(EmptyDict),
     Dict([name |-> "job"]),
     Dict([name |-> "job", cluster_dependencies |-> "[\"t.egg\"]"])}

EggFilesSettings == {None, "[\"c.egg\", \"d.egg\"]", "{}", "c.egg"}

AppOptions ==
    /\ NewCall("app_options")
    /\ \E tc \in TaskConfigs, e \in EggFilesSettings :
          /\ task_config' = tc
          /\ edx_egg_files' = e
          /\ options' = app_options(tc, e)
    /\ pc' = "idle"
    /\ outcome' = "returned"
    /\ args' = <<>>
    /\ archive' = NoArchive
    /\ UNCHANGED <<env, task, tmpdirs, _file_path_to_package_meta_path, invocations>>

(***************************************************************************)
(* main(sc, *args) and the steps it drives.                                *)
(***************************************************************************)
\* The arguments the framework passes: the options app_options returned, or
\* something else
MainArgs ==
    {<<>>, <<Malformed>>, <<NotADict>>}
    \cup {<<Dict(app_options(tc, e)[1])>> : tc \in TaskConfigs, e \in EggFilesSettings}

Step(name, raised) == [name |-> name, raised |-> raised]

Main ==
    /\ NewCall("main")
    /\ invocations < MaxInvocations
    /\ invocations' = invocations + 1
    /\ \E a \in MainArgs : args' = a
    /\ pc' = "init_spark"
    /\ outcome' = "running"
    /\ archive' = NoArchive
    /\ task_config' = NotADict
    /\ edx_egg_files' = None
    /\ options' = <<>>
    /\ UNCHANGED <<env, task, tmpdirs, _file_path_to_package_meta_path>>

\* lines 173-188.  The import, the session builder, mkdtemp and the log4j
\* lookup can each raise.
InitSparkOutcomes == {"ok", "import", "getOrCreate", "mkdtemp", "log4j"}

InitSparkError(r) ==
    CASE r = "ok" -> None
      [] r = "import" -> "ImportError(pyspark.sql)"
      [] r = "getOrCreate" -> "Py4JError(getOrCreate)"
      [] r = "mkdtemp" -> "OSError(mkdtemp)"
      [] r = "log4j" -> "Py4JError(log4j)"

InitSpark ==
    /\ pc = "init_spark"
    /\ \E r \in InitSparkOutcomes :
          /\ _spark_context' = IF r = "import" THEN _spark_context ELSE "sc"
          /\ _spark' = IF r \in {"import", "getOrCreate"} THEN _spark ELSE "session"
          /\ IF r \in {"ok", "log4j"}
             THEN \E d \in TmpNames \ tmpdirs :
                     /\ _tmp_dir' = d
                     /\ tmpdirs' = tmpdirs \cup {d}
                     /\ created' = d
             ELSE UNCHANGED <<_tmp_dir, tmpdirs, created>>
          /\ log' = IF r = "ok" THEN "logger" ELSE log
          /\ steps' = Append(steps, Step("init_spark", InitSparkError(r)))
          /\ pending' = InitSparkError(r)
          /\ pc' = after_step("init_spark", InitSparkError(r))
    /\ UNCHANGED <<env, _file_path_to_package_meta_path, op, args, outcome,
                   addPyFileCalls, archive, task_config, edx_egg_files, options,
                   invocations>>

\* lines 233-273.  addPyFile can raise at any file of the list (failAt; 0 when
\* none does).
AddPyFileError == "Py4JJavaError(addPyFile)"

LoadInternalDependencyOnCluster ==
    /\ pc = "_load_internal_dependency_on_cluster"
    /\ LET mapping == get_package_metadata_paths(_file_path_to_package_meta_path,
                                                 fs, dists)
       IN  \E r \in dependencies(fs, mapping, args, _tmp_dir, _tmp_dir \in tmpdirs) :
           \E failAt \in 0..Len(r.list) :
              LET raised == IF r.exc # None THEN r.exc
                            ELSE IF failAt > 0 THEN AddPyFileError ELSE None
              IN  /\ archive' = r.archive
                  /\ _file_path_to_package_meta_path' =
                        IF r.archive.package_zip_path = NoArchive.package_zip_path
                        THEN _file_path_to_package_meta_path ELSE mapping
                  /\ addPyFileCalls' =
                        IF failAt > 0 THEN SubSeq(r.list, 1, failAt) ELSE r.list
                  /\ steps' = Append(steps,
                                Step("_load_internal_dependency_on_cluster", raised))
                  /\ pending' = raised
                  /\ pc' = after_step("_load_internal_dependency_on_cluster", raised)
    /\ UNCHANGED <<env, task, tmpdirs, op, args, outcome, created, task_config,
                   edx_egg_files, options, invocations>>

\* lines 195-197 and line 284: the base class raises NotImplementedError; a
\* subclass's job returns or raises
SparkJobOutcomes == {None, "NotImplementedError", "JobError"}

SparkJob ==
    /\ pc = "spark_job"
    /\ \E raised \in SparkJobOutcomes :
          /\ steps' = Append(steps, Step("spark_job", raised))
          /\ pending' = raised
          /\ pc' = after_step("spark_job", raised)
    /\ UNCHANGED <<env, task, tmpdirs, _file_path_to_package_meta_path, op, args,
                   outcome, created, addPyFileCalls, archive, task_config,
                   edx_egg_files, options, invocations>>

\* lines 275-278 and 285-286: _clean, and main's exit.  shutil.rmtree removes
\* a directory that exists and raises OSError for one that does not.
Clean ==
    /\ pc = "_clean"
    /\ LET target == clean_target(_tmp_dir)
           clean_exc == IF target # None /\ target \notin tmpdirs
                        THEN RmtreeError ELSE None
       IN  /\ tmpdirs' = IF target # None THEN tmpdirs \ {target} ELSE tmpdirs
           /\ steps' = Append(steps, Step("_clean", clean_exc))
           /\ outcome' = main_outcome(pending, clean_exc)
    /\ pc' = "idle"
    /\ UNCHANGED <<env, task, _file_path_to_package_meta_path, op, args, pending,
                   created, addPyFileCalls, archive, task_config, edx_egg_files,
                   options, invocations>>

Next == AppOptions \/ Main \/ InitSpark \/ LoadInternalDependencyOnCluster
           \/ SparkJob \/ Clean

Spec == Init /\ [][Next]_vars

(***************************************************************************)
(* create_packages_archive(packages, archive_dir_path) called on its own,  *)
(* one turn of its loop over packages at a time.                           *)
(***************************************************************************)
PackageLists == UNION {[1..n -> ModuleNames] : n \in 0..MaxPackages}

ArchiveDirs == {"/tmp/out", "/tmp/gone"}

InitArchive == EnvInit /\ TaskInit /\ CallInit /\ tmpdirs = {"/tmp/out"}

Modules(names) == [i \in DOMAIN names |-> import(names[i])]

\* lines 59-66
ArchiveCall ==
    /\ NewCall("create_packages_archive")
    /\ op = "none"
    /\ \E packages \in PackageLists, dir \in ArchiveDirs :
          LET st == ArchiveStart(Modules(packages), dir)
          IN  IF dir \in tmpdirs
              THEN /\ archive' = st
                   /\ pc' = "archive"
                   /\ outcome' = "running"
              ELSE /\ archive' = [st EXCEPT !.exc = ZipOpenError]
                   /\ pc' = "idle"
                   /\ outcome' = ZipOpenError
    /\ _file_path_to_package_meta_path' =
          get_package_metadata_paths(_file_path_to_package_meta_path, fs, dists)
    /\ args' = <<>>
    /\ UNCHANGED <<env, task, tmpdirs, task_config, edx_egg_files, options,
                   invocations>>

\* lines 87-133
ArchivePackage ==
    /\ pc = "archive"
    /\ archive.processed < Len(archive.packages)
    /\ \E s \in process_package(fs, _file_path_to_package_meta_path, archive,
                                Modules(archive.packages), archive.processed + 1) :
          /\ archive' = s
          /\ pc' = IF s.exc # None THEN "idle" ELSE "archive"
          /\ outcome' = IF s.exc # None THEN s.exc ELSE outcome
    /\ UNCHANGED <<env, task, tmpdirs, _file_path_to_package_meta_path, op, args,
                   steps, pending, created, addPyFileCalls, task_config,
                   edx_egg_files, options, invocations>>

\* line 135
ArchiveReturn ==
    /\ pc = "archive"
    /\ archive.processed = Len(archive.packages)
    /\ archive' = archive_return(archive)
    /\ pc' = "idle"
    /\ outcome' = "returned"
    /\ UNCHANGED <<env, task, tmpdirs, _file_path_to_package_meta_path, op, args,
                   steps, pending, created, addPyFileCalls, task_config,
                   edx_egg_files, options, invocations>>

NextArchive == ArchiveCall \/ ArchivePackage \/ ArchiveReturn

SpecArchive == InitArchive /\ [][NextArchive]_vars

(***************************************************************************)
(* Properties of main, checked under Spec.                                 *)
(***************************************************************************)
MainExited == op = "main" /\ pc = "idle"

StepNames == {steps[i].name : i \in DOMAIN steps}

LoadStep == "_load_internal_dependency_on_cluster"

\* C1: whenever main has exited, normally or with an exception, _clean has
\* run, and the temporary directory init_spark created in that call, if it
\* created one, no longer exists.
C1_CleanupGuaranteed ==
    MainExited =>
        /\ "_clean" \in StepNames
        /\ created # None => created \notin tmpdirs

\* C1 witness: main exited with an exception after init_spark had created a
\* directory, and the directory is gone
C1_Witness ==
    /\ MainExited
    /\ created # None
    /\ pending # None
    /\ created \notin tmpdirs

\* C2: whenever a step of the try block raised, main exits by raising that
\* same exception, and no step is executed twice in one call.
C2_FailuresPropagateUnmodified ==
    MainExited =>
        /\ pending # None => outcome = pending
        /\ \A i, j \in DOMAIN steps : i # j => steps[i].name # steps[j].name

\* C4: the steps of the try block are started in the order init_spark,
\* _load_internal_dependency_on_cluster, spark_job, each only when all the
\* steps before it completed without raising, and _clean is the last step
\* of every call.
C4_LifecycleOrder ==
    LET body == <<"init_spark", LoadStep, "spark_job">>
    IN  op = "main" =>
          /\ \A i \in DOMAIN steps :
                IF steps[i].name = "_clean" THEN i = Len(steps) /\ pc = "idle"
                ELSE /\ i <= Len(body)
                     /\ steps[i].name = body[i]
                     /\ \A j \in 1..(i - 1) : steps[j].raised = None
          /\ pc = "idle" => Len(steps) > 0 /\ steps[Len(steps)].name = "_clean"

\* C4 witness: a call in which the load step raised: spark_job was skipped
\* and _clean came third and last
C4_Witness ==
    /\ MainExited
    /\ Len(steps) = 3
    /\ steps[2].name = LoadStep
    /\ steps[2].raised # None
    /\ steps[3].name = "_clean"

\* C5: whenever _load_internal_dependency_on_cluster has returned normally,
\* the calls of addPyFile made in that call of main are one for each entry
\* of the 'cluster_dependencies' JSON list of the first argument, in list
\* order, then one for <tmp_dir>/packages.zip; packages.zip alone when the
\* key is absent, None or does not decode to a list.
C5_Expected ==
    LET text == IF Len(args) > 0 THEN Get(args[1].d, "cluster_dependencies") ELSE None
        listed == IF text # None /\ json_loads(text).kind = "list"
                  THEN json_loads(text).items ELSE <<>>
    IN  listed \o <<_tmp_dir \o "/packages.zip">>

C5_LoadsDependencies ==
    (op = "main" /\ \E i \in DOMAIN steps :
                       steps[i].name = LoadStep /\ steps[i].raised = None)
        => addPyFileCalls = C5_Expected

\* C5 witness: the load step returned after loading two cluster dependencies
\* and packages.zip
C5_Witness ==
    /\ op = "main"
    /\ LoadStep \in StepNames
    /\ pending = None
    /\ addPyFileCalls = <<"c.egg", "d.egg", _tmp_dir \o "/packages.zip">>

\* C6 as stated: app_options returns a one-element list whose dict holds the
\* entries of a dict task configuration, and holds 'cluster_dependencies' if
\* and only if [spark] edx_egg_files is set, with that value.
C6_TaskEntries ==
    /\ Len(options) = 1
    /\ IF task_config.kind = "dict"
       THEN \A k \in DOMAIN task_config.d \ {"cluster_dependencies"} :
               k \in DOMAIN options[1] /\ options[1][k] = task_config.d[k]
       ELSE DOMAIN options[1] \subseteq {"cluster_dependencies"}
    /\ DOMAIN options[1] \subseteq DOMAIN task_config.d \cup {"cluster_dependencies"}
    /\ edx_egg_files # None =>
          /\ "cluster_dependencies" \in DOMAIN options[1]
          /\ options[1]["cluster_dependencies"] = edx_egg_files

C6_Original ==
    op = "app_options" =>
        /\ C6_TaskEntries
        /\ "cluster_dependencies" \in DOMAIN options[1] <=> edx_egg_files # None

\* C6, amended: app_options returns a one-element list whose dict holds the
\* entries of a dict task configuration; it holds 'cluster_dependencies' if
\* and only if [spark] edx_egg_files is set or the task configuration is a
\* dict with that key; the value is the configured one when set, and the
\* task configuration's otherwise.
C6_AppOptions ==
    op = "app_options" =>
        /\ C6_TaskEntries
        /\ "cluster_dependencies" \in DOMAIN options[1]
              <=> (edx_egg_files # None
                     \/ "cluster_dependencies" \in DOMAIN task_config.d)
        /\ (edx_egg_files = None /\ "cluster_dependencies" \in DOMAIN task_config.d)
              => options[1]["cluster_dependencies"]
                    = task_config.d["cluster_dependencies"]

\* C6 witness: the task configuration supplies 'cluster_dependencies' and
\* [spark] edx_egg_files is not set
C6_Witness ==
    /\ op = "app_options"
    /\ edx_egg_files = None
    /\ "cluster_dependencies" \in DOMAIN task_config.d
    /\ "cluster_dependencies" \in DOMAIN options[1]

\* C8: when main has called create_packages_archive and a listed package's
\* first __path__ entry ends with '.egg' and is a regular file, the call
\* ended in an error at that package (or before it), with the egg error when
\* at it; no file was written for that package or a later one; nothing was
\* returned, addPyFile was not called and spark_job was not run.
EggPositions ==
    {i \in DOMAIN ClusterPackages :
        /\ Len(getattr_path(ClusterPackages[i], <<>>)) > 0
        /\ endswith(ClusterPackages[i].__path__[1], ".egg")
        /\ ClusterPackages[i].__path__[1] \in fs.files}

ArchiveCalled == archive.package_zip_path # NoArchive.package_zip_path

C8_EggFilesNeverArchived ==
    (op = "main" /\ LoadStep \in StepNames /\ ArchiveCalled) =>
        \A i \in EggPositions :
            /\ archive.exc # None
            /\ archive.errIdx <= i
            /\ archive.errIdx = i => archive.exc = EggError
            /\ archive.processed = i - 1 => archive.errIdx = i
            /\ \A e \in archive.entries : e.idx < i
            /\ ~archive.returned
            /\ archive.archives_list = <<>>
            /\ addPyFileCalls = <<>>
            /\ "spark_job" \notin StepNames
            /\ \E k \in DOMAIN steps :
                  steps[k].name = LoadStep /\ steps[k].raised = archive.exc

\* C8 witness: main exited after create_packages_archive had archived the
\* first package and raised at the egg file listed second
C8_Witness ==
    /\ MainExited
    /\ 2 \in EggPositions
    /\ archive.exc = EggError
    /\ archive.errIdx = 2
    /\ archive.entries # {}
    /\ outcome = EggError

(***************************************************************************)
(* Properties of create_packages_archive, checked under SpecArchive.       *)
(***************************************************************************)
\* the files and links that lie anywhere below the directory top
FilesBelow(top) == {f \in fs.files \cup fs.links : startswith(f, top \o "/")}

\* neither bytecode nor hidden, by its own name
PlainName(f) == ~endswith(basename(f), ".pyc") /\ ~startswith(basename(f), ".")

\* inside a '.svn' directory of the tree of top
InSvn(top, f) == contains(SubSeq(f, Len(top) + 1, Len(f)), "/.svn/")

\* the entry of f when the tree of top is archived under name: the path of
\* f's directory with the root path replaced (str.replace) by name
EntryOf(f, top, name, i, in_metadata) ==
    Entry(dereference(fs, f),
          replace(dirname(f), top, name) \o "/" \o basename(f), i, in_metadata)

ListedPackage(i) == import(archive.packages[i])

HasPath(package) == Len(getattr_path(package, <<>>)) > 0

DottedToSlashes(package) == replace(package.__name__, ".", "/")

ArchivedFor(i) == {e \in archive.entries : e.idx = i /\ ~e.in_metadata}

MetadataFor(i) == {e \in archive.entries : e.idx = i /\ e.in_metadata}

KnownMetadata(i) ==
    {Get(_file_path_to_package_meta_path, realpath(fs, e.src)) :
        e \in ArchivedFor(i)} \ {None}

C7_MetadataShipped ==
    op = "create_packages_archive" =>
        \A i \in 1..archive.processed :
            IF KnownMetadata(i) = {} THEN MetadataFor(i) = {}
            ELSE \E m \in KnownMetadata(i) :
                    \A f \in FilesBelow(m) :
                        (PlainName(f) /\ ~InSvn(m, f)) =>
                            EntryOf(f, m, basename(m), i, TRUE) \in MetadataFor(i)

\* C7 witness: package a.b is processed, its archived files are installed
\* files of two distributions, and the metadata directory of the second one
\* was shipped
C7_Witness ==
    /\ op = "create_packages_archive"
    /\ archive.processed >= 1
    /\ archive.packages[1] = "a.b"
    /\ Cardinality(KnownMetadata(1)) = 2
    /\ Entry("/s/b-2.dist-info/RECORD", "b-2.dist-info/RECORD", 1, TRUE)
          \in archive.entries
====
